---- MODULE Spec2Model ----
(***************************************************************************)
(* Model of the HDF5 object-header decoder in src/src/lowlevel/level2.rs:  *)
(* ObjectHeaderPrefix / HeaderMessage parsing over a byte stream with      *)
(* bounded ("take") sub-readers, the per-message parsers, the floating     *)
(* point datatype bit-field decoder, and ObjectHeader::get_data_object.    *)
(*                                                                         *)
(* A file is a sequence of bytes (0..255).  A reader is a record           *)
(*   [pos |-> bytes consumed so far, lims |-> stack of take() limits]      *)
(* over that sequence: lims[1] is the outermost take, lims[Len] the        *)
(* innermost.  Every read decrements all limits, as nested io::Take do.    *)
(***************************************************************************)
EXTENDS Integers, Sequences, FiniteSets, TLC

VARIABLES
    file,        \* the bytes of the underlying stream
    rd,          \* the reader: cursor and stack of take limits
    pc,          \* position of the parse in the code
    left,        \* header messages still to be parsed (0..header_message_count)
    hdr,         \* fields read by ObjectHeaderPrefix::from_reader
    cur,         \* header of the message being parsed: start, kind, data_len, flags
    body,        \* what the variant parser returned for the current message
    messages,    \* ObjectHeaderPrefix.messages parsed so far, in file order
    result,      \* outcome of ObjectHeader::from_reader
    dobj,        \* outcome of ObjectHeader::get_data_object
    bit_field,   \* argument of FloatingPointDatatype::from_reader
    fp,          \* outcome of FloatingPointDatatype::from_reader
    buf,         \* data buffer handed to FloatingPointDatatype::decode
    dec,         \* outcome of FloatingPointDatatype::decode
    input        \* how the input was built (never read by the decoder)

vars == <<file, rd, pc, left, hdr, cur, body, messages, result, dobj,
          bit_field, fp, buf, dec, input>>

----------------------------------------------------------------------------
(* Error kinds.  InvalidFile, InvalidInput, Unsupported, Other are the     *)
(* crate's ErrorKind; Io stands for the kind a failed read is reported     *)
(* with.                                                                   *)

InvalidFile == "InvalidFile"
InvalidInput == "InvalidInput"
Unsupported == "Unsupported"
Other == "Other"
Io == "Io"

NoInfo == 0 - 1

\* An Err(..) result: the kind, a value the error reports, the reader left behind.
Fail(kind, info, r) == [ok |-> FALSE, err |-> kind, info |-> info, rd |-> r]

Min(a, b) == IF a <= b THEN a ELSE b

RECURSIVE MinSeq(_, _)
MinSeq(s, m) == IF s = <<>> THEN m ELSE MinSeq(Tail(s), Min(Head(s), m))

----------------------------------------------------------------------------
(* Readers.                                                                *)

\* Bytes a read can still deliver: the stream's rest, cut by every take limit.
Avail(f, r) ==
    LET rest == IF r.pos >= Len(f) THEN 0 ELSE Len(f) - r.pos
    IN  MinSeq(r.lims, rest)

\* The reader after n bytes were consumed through it.
Advance(r, n) ==
    [pos |-> r.pos + n, lims |-> [i \in 1..Len(r.lims) |-> r.lims[i] - n]]

\* A take that lets one byte more through.
Take_OffByOne(r, n) == [pos |-> r.pos, lims |-> r.lims \o <<n + 1>>]
\* reader.take(n): a sub-reader that delivers at most n bytes.
Take(r, n) == [pos |-> r.pos, lims |-> r.lims \o <<n>>]

\* Take::limit(): what the innermost take may still deliver.
Limit(r) == r.lims[Len(r.lims)]

\* Leaving the scope of the innermost take: the reader it wrapped.
Untake(r) == [pos |-> r.pos, lims |-> SubSeq(r.lims, 1, Len(r.lims) - 1)]

\* read_exact of n bytes: all n, or an error once the bytes run out.
ReadBytes(f, r, n) ==
    LET a == Avail(f, r)
    IN  IF n <= a
        THEN [ok |-> TRUE, val |-> SubSeq(f, r.pos + 1, r.pos + n), rd |-> Advance(r, n)]
        ELSE [ok |-> FALSE, err |-> Io, info |-> NoInfo, val |-> <<>>, rd |-> Advance(r, a)]

\* Little-endian value of a byte sequence.
RECURSIVE LittleEndian(_)
LittleEndian(bs) == IF bs = <<>> THEN 0 ELSE Head(bs) + 256 * LittleEndian(Tail(bs))

ReadUInt(f, r, n) ==
    LET b == ReadBytes(f, r, n)
    IN  IF b.ok THEN [ok |-> TRUE, val |-> LittleEndian(b.val), rd |-> b.rd] ELSE b

read_u8(f, r) == ReadUInt(f, r, 1)
read_u16(f, r) == ReadUInt(f, r, 2)
read_u24(f, r) == ReadUInt(f, r, 3)
read_u32(f, r) == ReadUInt(f, r, 4)
read_u64(f, r) == ReadUInt(f, r, 8)

\* skip(n): n bytes read and dropped.
skip(f, r, n) == ReadBytes(f, r, n)

\* read_vec(n): exactly n bytes.
read_vec(f, r, n) == ReadBytes(f, r, n)

\* read_all(): everything up to the end of the stream or the take limit.
read_all(f, r) ==
    LET a == Avail(f, r)
    IN  [ok |-> TRUE, val |-> SubSeq(f, r.pos + 1, r.pos + a), rd |-> Advance(r, a)]

\* seek_to(address): the cursor of a seekable stream set to an absolute offset.
seek_to(r, address) == [pos |-> address, lims |-> r.lims]

\* A 32-bit IEEE-754 value read little-endian, as its sign, biased exponent
\* and mantissa fields.
F32Value(bs) ==
    [sign |-> bs[4] \div 128,
     exponent |-> (bs[4] % 128) * 2 + (bs[3] \div 128),
     mantissa |-> (bs[3] % 128) * 65536 + bs[2] * 256 + bs[1]]

read_f32(f, r) ==
    LET b == ReadBytes(f, r, 4)
    IN  IF b.ok THEN [ok |-> TRUE, val |-> F32Value(b.val), rd |-> b.rd] ELSE b

----------------------------------------------------------------------------
(* Message parsers.  Each takes the stream and a reader and returns        *)
(* [ok |-> TRUE, val |-> message, rd |-> reader after] or Fail(..).        *)

\* type=0x00
NilMessage_from_reader(f, r) ==
    LET a == read_all(f, r)
    IN  [ok |-> TRUE, val |-> [type |-> "Nil"], rd |-> a.rd]

\* (0..n).map(|_| reader.read_u64()).collect::<Result<Vec<_>>>()
RECURSIVE ReadU64s(_, _, _)
ReadU64s(f, r, n) ==
    IF n = 0 THEN [ok |-> TRUE, val |-> <<>>, rd |-> r]
    ELSE LET x == read_u64(f, r)
         IN  IF ~x.ok THEN x
             ELSE LET xs == ReadU64s(f, x.rd, n - 1)
                  IN  IF ~xs.ok THEN xs
                      ELSE [ok |-> TRUE, val |-> <<x.val>> \o xs.val, rd |-> xs.rd]

\* type=0x01.  dimension_max_sizes is an Option: <<>> is None, <<v>> is Some(v).
\* A decoder that takes version 2 for the Dataspace version.
DataspaceVersion_Two == 1 + 1
DataspaceVersion == 1
DataspaceMessage_from_reader(f, r) ==
    LET version == read_u8(f, r) IN
    IF ~version.ok THEN version ELSE
    IF version.val # DataspaceVersion THEN Fail(Unsupported, version.val, version.rd) ELSE
    LET dimensionality == read_u8(f, version.rd) IN
    IF ~dimensionality.ok THEN dimensionality ELSE
    LET flags == read_u8(f, dimensionality.rd) IN
    IF ~flags.ok THEN flags ELSE
    LET sk == skip(f, flags.rd, 5) IN
    IF ~sk.ok THEN sk ELSE
    LET sizes == ReadU64s(f, sk.rd, dimensionality.val) IN
    IF ~sizes.ok THEN sizes ELSE
    LET hasMax == (flags.val % 2) # 0
        maxs == IF hasMax THEN ReadU64s(f, sizes.rd, dimensionality.val)
                ELSE [ok |-> TRUE, val |-> <<>>, rd |-> sizes.rd]
    IN
    IF ~maxs.ok THEN maxs ELSE
    IF ((flags.val \div 2) % 2) # 0 THEN Fail(Unsupported, NoInfo, maxs.rd) ELSE
    [ok |-> TRUE,
     val |-> [type |-> "Dataspace",
              dimension_sizes |-> sizes.val,
              dimension_max_sizes |-> IF hasMax THEN <<maxs.val>> ELSE <<>>],
     rd |-> maxs.rd]

\* DatatypeClass::try_from: the class names by code 0..10.
DatatypeClassNames ==
    <<"FixedPoint", "FloatingPoint", "Time", "String", "BitField", "Opaque",
      "Compound", "Reference", "Enumerated", "VariableLength", "Array">>

\* A mapping that folds the codes above 10 back onto the listed classes.
DatatypeClass_try_from_Wrap(c) ==
    [ok |-> TRUE, val |-> DatatypeClassNames[(c % Len(DatatypeClassNames)) + 1]]

DatatypeClass_try_from(c) ==
    IF c < Len(DatatypeClassNames)
    THEN [ok |-> TRUE, val |-> DatatypeClassNames[c + 1]]
    ELSE [ok |-> FALSE, err |-> InvalidFile, info |-> c]

\* MantissaNorm::try_from
MantissaNorm_try_from(c) ==
    CASE c = 0 -> [ok |-> TRUE, val |-> "None"]
      [] c = 1 -> [ok |-> TRUE, val |-> "AlwaysSet"]
      [] c = 2 -> [ok |-> TRUE, val |-> "ImpliedToBeSet"]
      [] c = 3 -> [ok |-> FALSE, err |-> InvalidFile, info |-> c]
      [] OTHER -> [ok |-> FALSE, err |-> InvalidInput, info |-> c]

\* Endian::try_from
Endian_try_from(c) ==
    CASE c = 0 -> [ok |-> TRUE, val |-> "Little"]
      [] c = 1 -> [ok |-> TRUE, val |-> "Big"]
      [] c = 64 -> [ok |-> FALSE, err |-> InvalidFile, info |-> c]
      [] c = 65 -> [ok |-> TRUE, val |-> "Vax"]
      [] OTHER -> [ok |-> FALSE, err |-> InvalidInput, info |-> c]

\* Bit i of x, and the bit-field's masks and shifts.
Bit(x, i) == (x \div (2 ^ i)) % 2
\* The byte-order mask with bit 7 in place of bit 6.
EndianBits_WrongMask(bf) == Bit(bf, 0) + 64 * Bit(bf, 7)
EndianBits(bf) == Bit(bf, 0) + 64 * Bit(bf, 6)
MantissaNormBits(bf) == (bf \div 16) % 4
SignLocationBits(bf) == (bf \div 256) % 256

FloatingPointDatatype_from_reader(bf, size, f, r) ==
    LET bit_offset == read_u16(f, r) IN
    IF ~bit_offset.ok THEN bit_offset ELSE
    LET bit_precision == read_u16(f, bit_offset.rd) IN
    IF ~bit_precision.ok THEN bit_precision ELSE
    LET exponent_location == read_u8(f, bit_precision.rd) IN
    IF ~exponent_location.ok THEN exponent_location ELSE
    LET exponent_size == read_u8(f, exponent_location.rd) IN
    IF ~exponent_size.ok THEN exponent_size ELSE
    LET mantissa_location == read_u8(f, exponent_size.rd) IN
    IF ~mantissa_location.ok THEN mantissa_location ELSE
    LET mantissa_size == read_u8(f, mantissa_location.rd) IN
    IF ~mantissa_size.ok THEN mantissa_size ELSE
    LET exponent_bias == read_u32(f, mantissa_size.rd) IN
    IF ~exponent_bias.ok THEN exponent_bias ELSE
    LET sk == skip(f, exponent_bias.rd, 4) IN
    IF ~sk.ok THEN sk ELSE
    LET endian == Endian_try_from(EndianBits(bf)) IN
    IF ~endian.ok THEN Fail(endian.err, endian.info, sk.rd) ELSE
    LET mantissa_norm == MantissaNorm_try_from(MantissaNormBits(bf)) IN
    IF ~mantissa_norm.ok THEN Fail(mantissa_norm.err, mantissa_norm.info, sk.rd) ELSE
    [ok |-> TRUE,
     val |-> [type |-> "Datatype", class |-> "FloatingPoint",
              size |-> size,
              endian |-> endian.val,
              low_padding_bit |-> Bit(bf, 1),
              high_padding_bit |-> Bit(bf, 2),
              internal_padding_bit |-> Bit(bf, 3),
              mantissa_norm |-> mantissa_norm.val,
              sign_location |-> SignLocationBits(bf),
              bit_offset |-> bit_offset.val,
              bit_precision |-> bit_precision.val,
              exponent_location |-> exponent_location.val,
              exponent_size |-> exponent_size.val,
              mantissa_location |-> mantissa_location.val,
              mantissa_size |-> mantissa_size.val,
              exponent_bias |-> exponent_bias.val],
     rd |-> sk.rd]

FixedPointDatatype_from_reader(bf, size, f, r) ==
    LET bit_offset == read_u16(f, r) IN
    IF ~bit_offset.ok THEN bit_offset ELSE
    LET bit_precision == read_u16(f, bit_offset.rd) IN
    IF ~bit_precision.ok THEN bit_precision ELSE
    LET sk == skip(f, bit_precision.rd, 4) IN
    IF ~sk.ok THEN sk ELSE
    [ok |-> TRUE,
     val |-> [type |-> "Datatype", class |-> "FixedPoint",
              bit_field |-> bf, size |-> size,
              bit_offset |-> bit_offset.val, bit_precision |-> bit_precision.val],
     rd |-> sk.rd]

\* type=0x03
DatatypeVersion == 1
DatatypeMessage_from_reader(f, r) ==
    LET class_and_version == read_u8(f, r) IN
    IF ~class_and_version.ok THEN class_and_version ELSE
    LET version == class_and_version.val \div 16
        class == DatatypeClass_try_from(class_and_version.val % 16)
    IN
    IF ~class.ok THEN Fail(class.err, class.info, class_and_version.rd) ELSE
    IF version # DatatypeVersion THEN Fail(Unsupported, version, class_and_version.rd) ELSE
    LET bf == read_u24(f, class_and_version.rd) IN
    IF ~bf.ok THEN bf ELSE
    LET size == read_u32(f, bf.rd) IN
    IF ~size.ok THEN size ELSE
    CASE class.val = "FixedPoint" ->
            FixedPointDatatype_from_reader(bf.val, size.val, f, size.rd)
      [] class.val = "FloatingPoint" ->
            FloatingPointDatatype_from_reader(bf.val, size.val, f, size.rd)
      [] OTHER -> Fail(Unsupported, class_and_version.val % 16, size.rd)

\* type=0x05.  fill_value is an Option: <<>> is None, <<bytes>> is Some(bytes).
FillValueVersion == 2
FillValueMessage_from_reader(f, r) ==
    LET version == read_u8(f, r) IN
    IF ~version.ok THEN version ELSE
    IF version.val # FillValueVersion THEN Fail(Unsupported, version.val, version.rd) ELSE
    LET space_allocation_time == read_u8(f, version.rd) IN
    IF ~space_allocation_time.ok THEN space_allocation_time ELSE
    LET fill_value_write_time == read_u8(f, space_allocation_time.rd) IN
    IF ~fill_value_write_time.ok THEN fill_value_write_time ELSE
    LET fill_value_defined == read_u8(f, fill_value_write_time.rd) IN
    IF ~fill_value_defined.ok THEN fill_value_defined ELSE
    IF fill_value_defined.val = 1
    THEN LET size == read_u32(f, fill_value_defined.rd) IN
         IF ~size.ok THEN size ELSE
         LET fill_value == read_vec(f, size.rd, size.val) IN
         IF ~fill_value.ok THEN fill_value ELSE
         [ok |-> TRUE,
          val |-> [type |-> "FillValue",
                   space_allocation_time |-> space_allocation_time.val,
                   fill_value_write_time |-> fill_value_write_time.val,
                   fill_value |-> <<fill_value.val>>],
          rd |-> fill_value.rd]
    ELSE [ok |-> TRUE,
          val |-> [type |-> "FillValue",
                   space_allocation_time |-> space_allocation_time.val,
                   fill_value_write_time |-> fill_value_write_time.val,
                   fill_value |-> <<>>],
          rd |-> fill_value_defined.rd]

\* Layout::from_reader: only class 1 (Contiguous) is decoded.
Layout_from_reader(class, f, r) ==
    CASE class = 0 -> Fail(Unsupported, class, r)
      [] class = 1 ->
            LET address == read_u64(f, r) IN
            IF ~address.ok THEN address ELSE
            LET size == read_u64(f, address.rd) IN
            IF ~size.ok THEN size ELSE
            [ok |-> TRUE,
             val |-> [address |-> address.val, size |-> size.val],
             rd |-> size.rd]
      [] class = 2 -> Fail(Unsupported, class, r)
      [] OTHER -> Fail(InvalidFile, class, r)

\* type=0x08
DataLayoutVersion == 3
DataLayoutMessage_from_reader(f, r) ==
    LET version == read_u8(f, r) IN
    IF ~version.ok THEN version ELSE
    IF version.val # DataLayoutVersion THEN Fail(Unsupported, version.val, version.rd) ELSE
    LET layout_class == read_u8(f, version.rd) IN
    IF ~layout_class.ok THEN layout_class ELSE
    LET layout == Layout_from_reader(layout_class.val, f, layout_class.rd) IN
    IF ~layout.ok THEN layout ELSE
    LET padding == read_all(f, layout.rd) IN
    [ok |-> TRUE, val |-> [type |-> "DataLayout", layout |-> layout.val], rd |-> padding.rd]

\* type=0x11
SymbolTableMessage_from_reader(f, r) ==
    LET b_tree_address == read_u64(f, r) IN
    IF ~b_tree_address.ok THEN b_tree_address ELSE
    LET local_heap_address == read_u64(f, b_tree_address.rd) IN
    IF ~local_heap_address.ok THEN local_heap_address ELSE
    [ok |-> TRUE,
     val |-> [type |-> "SymbolTable",
              b_tree_address |-> b_tree_address.val,
              local_heap_address |-> local_heap_address.val],
     rd |-> local_heap_address.rd]

\* type=0x12
ObjectModificationTimeVersion == 1
ObjectModificationTimeMessage_from_reader(f, r) ==
    LET version == read_u8(f, r) IN
    IF ~version.ok THEN version ELSE
    IF version.val # ObjectModificationTimeVersion
    THEN Fail(Unsupported, version.val, version.rd) ELSE
    LET sk == skip(f, version.rd, 3) IN
    IF ~sk.ok THEN sk ELSE
    LET unixtime_seconds == read_u32(f, sk.rd) IN
    IF ~unixtime_seconds.ok THEN unixtime_seconds ELSE
    [ok |-> TRUE,
     val |-> [type |-> "ObjectModificationTime",
              unixtime_seconds |-> unixtime_seconds.val],
     rd |-> unixtime_seconds.rd]

\* The match on the type code in HeaderMessage::from_reader.
TypeNil == 0
TypeDataspace == 1
TypeDatatype == 3
TypeFillValue == 5
TypeDataLayout == 8
TypeSymbolTable == 17
TypeObjectModificationTime == 18

\* A dispatch that reads over a message of an unlisted type like a Nil one.
MessageDispatch_SkipUnknown(kind, f, r) ==
    CASE kind = TypeDataspace -> DataspaceMessage_from_reader(f, r)
      [] kind = TypeDatatype -> DatatypeMessage_from_reader(f, r)
      [] kind = TypeFillValue -> FillValueMessage_from_reader(f, r)
      [] kind = TypeDataLayout -> DataLayoutMessage_from_reader(f, r)
      [] kind = TypeSymbolTable -> SymbolTableMessage_from_reader(f, r)
      [] kind = TypeObjectModificationTime -> ObjectModificationTimeMessage_from_reader(f, r)
      [] OTHER -> NilMessage_from_reader(f, r)

MessageDispatch(kind, f, r) ==
    CASE kind = TypeNil -> NilMessage_from_reader(f, r)
      [] kind = TypeDataspace -> DataspaceMessage_from_reader(f, r)
      [] kind = TypeDatatype -> DatatypeMessage_from_reader(f, r)
      [] kind = TypeFillValue -> FillValueMessage_from_reader(f, r)
      [] kind = TypeDataLayout -> DataLayoutMessage_from_reader(f, r)
      [] kind = TypeSymbolTable -> SymbolTableMessage_from_reader(f, r)
      [] kind = TypeObjectModificationTime -> ObjectModificationTimeMessage_from_reader(f, r)
      [] OTHER -> Fail(Unsupported, kind, r)

----------------------------------------------------------------------------
(* FloatingPointDatatype::decode and ObjectHeader::get_data_object.        *)

\* The track_assert_eq! chain of decode: the number of the first field that
\* is not the IEEE-754 single-precision one, 0 if all are.
Deviation(t) ==
    CASE t.endian # "Little" -> 1
      [] t.low_padding_bit # 0 -> 2
      [] t.high_padding_bit # 0 -> 3
      [] t.internal_padding_bit # 0 -> 4
      [] t.mantissa_norm # "ImpliedToBeSet" -> 5
      [] t.sign_location # 31 -> 6
      [] t.bit_offset # 0 -> 7
      [] t.bit_precision # 32 -> 8
      [] t.exponent_location # 23 -> 9
      [] t.exponent_size # 8 -> 10
      [] t.mantissa_location # 0 -> 11
      [] t.mantissa_size # 23 -> 12
      [] t.exponent_bias # 127 -> 13
      [] OTHER -> 0

\* An f32 is a NaN when its exponent field is all ones and its mantissa
\* field is not zero.
IsNaN(x) == x.exponent = 255 /\ x.mantissa # 0

\* What a float conversion may make of a NaN: the sign is not determined,
\* and the quiet bit and the payload are those of the input (unchanged),
\* those of the input with the quiet bit set (quieting), or the quiet bit
\* alone (preferred).
NaNChoices == [sign : {0, 1}, payload : {"unchanged", "quieting", "preferred"}]

\* f64::from(f32): exact for every value that is not a NaN.  The f64 is
\* kept as the f32 fields it narrows back to: the widening appends zero
\* bits to the mantissa and rebiases the exponent.  Bit 22 of the mantissa
\* field is the quiet bit.
f64_from(x, nan) ==
    IF ~IsNaN(x) THEN x
    ELSE [sign |-> nan.sign,
          exponent |-> 255,
          mantissa |-> CASE nan.payload = "unchanged" -> x.mantissa
                         [] nan.payload = "quieting" -> (x.mantissa % (2^22)) + 2^22
                         [] nan.payload = "preferred" -> 2^22]

\* A decode that reads the element before it checks the description.
decode_ReadFirst(t, f, r, nan) ==
    LET x == read_f32(f, r)
    IN  IF ~x.ok THEN x
        ELSE IF Deviation(t) # 0 THEN Fail(Unsupported, Deviation(t), x.rd)
        ELSE [ok |-> TRUE, val |-> f64_from(x.val, nan), rd |-> x.rd]
\* FloatingPointDatatype::decode: every check, then
\* reader.read_f32().map(f64::from).
decode(t, f, r, nan) ==
    IF Deviation(t) # 0 THEN Fail(Unsupported, Deviation(t), r)
    ELSE LET x == read_f32(f, r)
         IN  IF ~x.ok THEN x
             ELSE [ok |-> TRUE, val |-> f64_from(x.val, nan), rd |-> x.rd]

\* Index (1-based) of the first message of a type in file order, 0 if none.
RECURSIVE FirstFrom(_, _, _)
FirstFrom(msgs, type, i) ==
    IF i > Len(msgs) THEN 0
    ELSE IF msgs[i].message.type = type THEN i
    ELSE FirstFrom(msgs, type, i + 1)

\* A lookup that keeps the last match.
RECURSIVE LastFrom(_, _, _)
LastFrom(msgs, type, i) ==
    IF i = 0 THEN 0
    ELSE IF msgs[i].message.type = type THEN i
    ELSE LastFrom(msgs, type, i - 1)

FirstOfType_Last(msgs, type) == LastFrom(msgs, type, Len(msgs))
\* The lookup loops of dimensions, datatype and get_data_bytes.
FirstOfType(msgs, type) == FirstFrom(msgs, type, 1)

dimensions(msgs) ==
    LET i == FirstOfType(msgs, "Dataspace")
    IN  IF i = 0 THEN [ok |-> FALSE, err |-> Other, info |-> NoInfo]
        ELSE [ok |-> TRUE, val |-> msgs[i].message.dimension_sizes]

datatype(msgs) ==
    LET i == FirstOfType(msgs, "Datatype")
    IN  IF i = 0 THEN [ok |-> FALSE, err |-> Other, info |-> NoInfo]
        ELSE [ok |-> TRUE, val |-> msgs[i].message]

\* get_data_bytes: the region of the first DataLayout message, read through
\* the reader it is handed: seek_to(address), then read_vec(size).  Without
\* a DataLayout message the reader is not touched.
get_data_bytes(msgs, f, r) ==
    LET i == FirstOfType(msgs, "DataLayout")
    IN  IF i = 0 THEN Fail(Other, NoInfo, r)
        ELSE LET layout == msgs[i].message.layout
             IN  read_vec(f, seek_to(r, layout.address), layout.size)

\* The low k bytes of a number, least significant first.
RECURSIVE Bytes(_, _)
Bytes(n, k) == IF k = 0 THEN <<>> ELSE <<n % 256>> \o Bytes(n \div 256, k - 1)

\* d as usize: a 64-bit value, kept as its 8 bytes, least significant
\* first, so that products beyond the range of a machine word are computed
\* as the code computes them.
as_usize(n) == Bytes(n, 8)

\* The sum of the byte products a[i] * b[j] of weight 256^(k-1).
RECURSIVE ColumnFrom(_, _, _, _)
ColumnFrom(a, b, k, i) ==
    IF i > Len(a) THEN 0
    ELSE (IF (k + 1 - i) \in 1..Len(b) THEN a[i] * b[k + 1 - i] ELSE 0)
             + ColumnFrom(a, b, k, i + 1)

\* The bytes of the full product of a and b from weight 256^(k-1) on.
RECURSIVE LongProductFrom(_, _, _, _)
LongProductFrom(a, b, k, carry) ==
    IF k > Len(a) + Len(b) THEN <<>>
    ELSE LET s == ColumnFrom(a, b, k, 1) + carry
         IN  <<s % 256>> \o LongProductFrom(a, b, k + 1, s \div 256)

\* usize multiplication: the product modulo 2^64, and whether the full
\* product went beyond 64 bits.
overflowing_mul(a, b) ==
    LET p == LongProductFrom(a, b, 1, 0)
    IN  [val |-> SubSeq(p, 1, Len(a)),
         overflow |-> \E i \in (Len(a) + 1)..Len(p) : p[i] # 0]

\* a < b for two usize values.
RECURSIVE LessFrom(_, _, _)
LessFrom(a, b, i) ==
    IF i = 0 THEN FALSE
    ELSE IF a[i] # b[i] THEN a[i] < b[i]
    ELSE LessFrom(a, b, i - 1)

usize_lt(a, b) == LessFrom(a, b, Len(a))

\* Iterator::product::<usize>: the dimensions multiplied from 1 on, left to
\* right.  val is the wrapped product; overflow tells whether any of the
\* multiplications overflowed.
RECURSIVE ProductFrom(_, _)
ProductFrom(acc, ds) ==
    IF ds = <<>> THEN acc
    ELSE LET m == overflowing_mul(acc.val, as_usize(Head(ds)))
         IN  ProductFrom([val |-> m.val, overflow |-> acc.overflow \/ m.overflow],
                         Tail(ds))

Product(ds) == ProductFrom([val |-> as_usize(1), overflow |-> FALSE], ds)

RECURSIVE Sum(_)
Sum(ds) == IF ds = <<>> THEN 0 ELSE Head(ds) + Sum(Tail(ds))

\* A count that adds the dimensions up.
ElementCount_Sum(dims) == [val |-> as_usize(Sum(dims)), overflow |-> FALSE]
\* count: dimensions.iter().cloned().product()
ElementCount(dims) == Product(dims)

\* The choice made for the conversion of item i: only the items that are
\* NaNs have one.
NaNAt(nans, i) ==
    IF i \in DOMAIN nans THEN nans[i] ELSE [sign |-> 0, payload |-> "unchanged"]

\* (0..count).map(|i| t.decode(&mut reader)).collect::<Result<Vec<_>>>():
\* the items from number i on.
RECURSIVE DecodeItems(_, _, _, _, _, _)
DecodeItems(t, f, r, i, count, nans) ==
    IF ~usize_lt(as_usize(i), count) THEN [ok |-> TRUE, val |-> <<>>, rd |-> r]
    ELSE LET x == decode(t, f, r, NaNAt(nans, i))
         IN  IF ~x.ok THEN x
             ELSE LET xs == DecodeItems(t, f, x.rd, i + 1, count, nans)
                  IN  IF ~xs.ok THEN xs
                      ELSE [ok |-> TRUE, val |-> <<x.val>> \o xs.val, rd |-> xs.rd]

\* The index tuples of an array of the given shape (each axis from 0).
RECURSIVE Indices(_)
Indices(shape) ==
    IF shape = <<>> THEN {<<>>}
    ELSE {<<i>> \o rest : i \in 0..(Head(shape) - 1), rest \in Indices(Tail(shape))}

\* Offset of an index tuple in row-major (C) order.
RECURSIVE RowMajorFrom(_, _, _)
RowMajorFrom(idx, shape, acc) ==
    IF idx = <<>> THEN acc
    ELSE RowMajorFrom(Tail(idx), Tail(shape), acc * Head(shape) + Head(idx))

RowMajor(idx, shape) == RowMajorFrom(idx, shape, 0)

\* The size ndarray gives a shape: the product of the axis lengths, refused
\* when the product of the nonzero ones overflows or exceeds isize::MAX.
size_of_shape_checked(shape) ==
    LET nonzero == Product(SelectSeq(shape, LAMBDA d : d # 0))
    IN  IF nonzero.overflow \/ nonzero.val[Len(nonzero.val)] >= 128
        THEN [ok |-> FALSE]
        ELSE [ok |-> TRUE, val |-> Product(shape).val]

\* aview1(&items).into_shape(dimensions): the items laid out row-major; an
\* error when the shape has no size or another size than the items.
into_shape(items, shape) ==
    LET size == size_of_shape_checked(shape) IN
    IF ~size.ok \/ size.val # as_usize(Len(items))
    THEN [ok |-> FALSE, err |-> Other, info |-> NoInfo]
    ELSE [ok |-> TRUE,
          val |-> [shape |-> shape,
                   at |-> [idx \in Indices(shape) |-> items[RowMajor(idx, shape) + 1]]]]

\* A data object accepted with bytes of the region left over.
FullyConsumed_NoCheck(r, bytes) == TRUE
\* track_assert_eq!(reader, b""): nothing of the region is left undecoded.
FullyConsumed(r, bytes) == r.pos = Len(bytes)

\* A panic: the call does not return.
Panic == "Panic"

\* ObjectHeader::get_data_object on the reader r.  rd is the reader as the
\* call leaves it.  overflow_checks tells whether the build checks integer
\* arithmetic (a debug build does, a release build does not): with the
\* checks an overflowing product of line 36 panics, without them it wraps.
\* nans holds the outcome of the conversion of each NaN item.
get_data_object(msgs, f, r, overflow_checks, nans) ==
    LET bytes == get_data_bytes(msgs, f, r) IN
    IF ~bytes.ok THEN Fail(bytes.err, bytes.info, bytes.rd) ELSE
    LET dims == dimensions(msgs) IN
    IF ~dims.ok THEN Fail(dims.err, dims.info, bytes.rd) ELSE
    LET dt == datatype(msgs) IN
    IF ~dt.ok THEN Fail(dt.err, dt.info, bytes.rd) ELSE
    LET count == ElementCount(dims.val) IN
    IF count.overflow /\ overflow_checks THEN Fail(Panic, NoInfo, bytes.rd) ELSE
    IF dt.val.class = "FloatingPoint"
    THEN LET items == DecodeItems(dt.val, bytes.val, [pos |-> 0, lims |-> <<>>],
                                  0, count.val, nans) IN
         IF ~items.ok THEN Fail(items.err, items.info, bytes.rd) ELSE
         IF ~FullyConsumed(items.rd, bytes.val)
         THEN Fail(InvalidFile, Len(bytes.val) - items.rd.pos, bytes.rd)
         ELSE LET shaped == into_shape(items.val, dims.val)
              IN  IF ~shaped.ok THEN Fail(shaped.err, shaped.info, bytes.rd)
                  ELSE [ok |-> TRUE, val |-> shaped.val, rd |-> bytes.rd]
    ELSE Fail(Unsupported, NoInfo, bytes.rd)

\* The items of the data region that are NaNs, by number from 0.
NaNItems(msgs, f, r) ==
    LET bytes == get_data_bytes(msgs, f, r)
    IN  IF ~bytes.ok THEN {}
        ELSE {i \in 0..((Len(bytes.val) \div 4) - 1) :
                  IsNaN(F32Value(SubSeq(bytes.val, 4 * i + 1, 4 * i + 4)))}

----------------------------------------------------------------------------
(* The parse of an object header, step by step.                            *)

PrefixVersion == 1

\* ObjectHeaderPrefix::from_reader up to the take(): the 16 fixed bytes.
ObjectHeaderPrefix_fixed(f, r) ==
    LET version == read_u8(f, r) IN
    IF ~version.ok THEN version ELSE
    IF version.val # PrefixVersion THEN Fail(InvalidFile, version.val, version.rd) ELSE
    LET reserved == read_u8(f, version.rd) IN
    IF ~reserved.ok THEN reserved ELSE
    IF reserved.val # 0 THEN Fail(InvalidFile, reserved.val, reserved.rd) ELSE
    LET header_message_count == read_u16(f, reserved.rd) IN
    IF ~header_message_count.ok THEN header_message_count ELSE
    LET object_reference_count == read_u32(f, header_message_count.rd) IN
    IF ~object_reference_count.ok THEN object_reference_count ELSE
    LET object_header_size == read_u32(f, object_reference_count.rd) IN
    IF ~object_header_size.ok THEN object_header_size ELSE
    LET sk == skip(f, object_header_size.rd, 4) IN
    IF ~sk.ok THEN sk ELSE
    [ok |-> TRUE,
     val |-> [header_message_count |-> header_message_count.val,
              object_reference_count |-> object_reference_count.val,
              object_header_size |-> object_header_size.val],
     rd |-> Take(sk.rd, object_header_size.val)]

\* HeaderMessage::from_reader up to the take(): type, length, flags, 3 reserved.
HeaderMessage_fixed(f, r) ==
    LET kind == read_u16(f, r) IN
    IF ~kind.ok THEN kind ELSE
    LET data_len == read_u16(f, kind.rd) IN
    IF ~data_len.ok THEN data_len ELSE
    LET flags == read_u8(f, data_len.rd) IN
    IF ~flags.ok THEN flags ELSE
    LET sk == skip(f, flags.rd, 3) IN
    IF ~sk.ok THEN sk ELSE
    [ok |-> TRUE,
     val |-> [kind |-> kind.val, data_len |-> data_len.val, flags |-> flags.val % 128],
     rd |-> Take(sk.rd, data_len.val)]

\* A message accepted whatever its parser left unread.
MessageComplete_NoCheck(r) == TRUE
\* The limit check that ends HeaderMessage::from_reader.
MessageComplete(r) == Limit(r) = 0

\* A prefix accepted whatever its messages left unread.
PrefixComplete_NoCheck(r) == TRUE
\* The limit check that ends ObjectHeaderPrefix::from_reader.
PrefixComplete(r) == Limit(r) = 0

NoCur == [state |-> "none", start |-> 0, kind |-> 0, data_len |-> 0, flags |-> 0]
NoBody == [ok |-> FALSE, err |-> "none", info |-> NoInfo]
NoResult == [ok |-> FALSE, err |-> "none", info |-> NoInfo]
NoHdr == [header_message_count |-> 0, object_reference_count |-> 0,
          object_header_size |-> 0]

Error(x) == [ok |-> FALSE, err |-> x.err, info |-> x.info]

\* An error ends ObjectHeader::from_reader: the messages collected so far are dropped.
Abort(x, r, c) ==
    /\ result' = Error(x)
    /\ rd' = r
    /\ cur' = c
    /\ messages' = <<>>
    /\ pc' = "done"

ReadPrefix ==
    /\ pc = "start"
    /\ LET p == ObjectHeaderPrefix_fixed(file, rd)
       IN  IF p.ok
           THEN /\ hdr' = p.val
                /\ left' = p.val.header_message_count
                /\ rd' = p.rd
                /\ pc' = "msg"
                /\ UNCHANGED <<cur, messages, result>>
           ELSE /\ Abort(p, p.rd, cur)
                /\ UNCHANGED <<hdr, left>>
    /\ UNCHANGED <<file, body, dobj, bit_field, fp, buf, dec, input>>

ReadMessageHeader ==
    /\ pc = "msg"
    /\ left > 0
    /\ LET h == HeaderMessage_fixed(file, rd)
       IN  IF h.ok
           THEN /\ cur' = [state |-> "open", start |-> rd.pos, kind |-> h.val.kind,
                           data_len |-> h.val.data_len, flags |-> h.val.flags]
                /\ rd' = h.rd
                /\ pc' = "body"
                /\ UNCHANGED <<messages, result>>
           ELSE Abort(h, h.rd, NoCur)
    /\ UNCHANGED <<file, left, hdr, body, dobj, bit_field, fp, buf, dec, input>>

ParseMessageBody ==
    /\ pc = "body"
    /\ body' = MessageDispatch(cur.kind, file, rd)
    /\ IF body'.ok
       THEN /\ rd' = body'.rd
            /\ pc' = "check"
            /\ UNCHANGED <<cur, messages, result>>
       ELSE Abort(body', body'.rd, [cur EXCEPT !.state = "failed"])
    /\ UNCHANGED <<file, left, hdr, dobj, bit_field, fp, buf, dec, input>>

CheckMessage ==
    /\ pc = "check"
    /\ IF MessageComplete(rd)
       THEN /\ messages' = Append(messages, [flags |-> cur.flags, message |-> body.val])
            /\ cur' = [cur EXCEPT !.state = "ok"]
            /\ rd' = Untake(rd)
            /\ left' = left - 1
            /\ pc' = "msg"
            /\ UNCHANGED result
       ELSE /\ Abort([err |-> Other, info |-> Limit(rd)], rd,
                     [cur EXCEPT !.state = "failed"])
            /\ UNCHANGED left
    /\ UNCHANGED <<file, hdr, body, dobj, bit_field, fp, buf, dec, input>>

FinishPrefix ==
    /\ pc = "msg"
    /\ left = 0
    /\ IF PrefixComplete(rd)
       THEN /\ result' = [ok |-> TRUE,
                          val |-> [messages |-> messages,
                                   object_reference_count |-> hdr.object_reference_count,
                                   object_header_size |-> hdr.object_header_size]]
            /\ rd' = Untake(rd)
            /\ pc' = "parsed"
            /\ UNCHANGED <<cur, messages>>
       ELSE Abort([err |-> Other, info |-> Limit(rd)], rd, cur)
    /\ UNCHANGED <<file, left, hdr, body, dobj, bit_field, fp, buf, dec, input>>

\* get_data_object on the stream the header was parsed from, as
\* examples/parse.rs calls it.  The call returns a data object or an error,
\* or it panics.
GetDataObject ==
    /\ pc = "parsed"
    /\ \E overflow_checks \in BOOLEAN :
       \E nans \in [NaNItems(result.val.messages, file, rd) -> NaNChoices] :
           dobj' = get_data_object(result.val.messages, file, rd, overflow_checks, nans)
    /\ rd' = dobj'.rd
    /\ pc' = IF ~dobj'.ok /\ dobj'.err = Panic THEN "panicked" ELSE "done"
    /\ UNCHANGED <<file, left, hdr, cur, body, messages, result,
                   bit_field, fp, buf, dec, input>>

----------------------------------------------------------------------------
(* Input files, built field by field from the binary layout.               *)

MaxPad == 2          \* padding / Nil body lengths 0..MaxPad
MaxRank == 2         \* dataspace dimensionality 0..MaxRank
MaxDim == 3          \* dimension sizes 0..MaxDim
MaxMsgs == 2         \* messages in a prefix of the "multi" family
MaxLookupMsgs == 4   \* messages in a prefix of the "lookup" family

RECURSIVE Zeros(_)
Zeros(n) == IF n = 0 THEN <<>> ELSE <<0>> \o Zeros(n - 1)

U16(v) == <<v % 256, v \div 256>>
U24(v) == <<v % 256, (v \div 256) % 256, v \div 65536>>
U32(v) == <<v % 256, (v \div 256) % 256, (v \div 65536) % 256, v \div 16777216>>
U64(v) == U32(v) \o Zeros(4)

RECURSIVE U64Seq(_)
U64Seq(vs) == IF vs = <<>> THEN <<>> ELSE U64(Head(vs)) \o U64Seq(Tail(vs))

\* Sequences over S of length 0..n.
RECURSIVE SeqsUpTo(_, _)
SeqsUpTo(S, n) ==
    IF n = 0 THEN {<<>>}
    ELSE LET shorter == SeqsUpTo(S, n - 1)
         IN  shorter \cup {Append(q, x) : q \in {t \in shorter : Len(t) = n - 1}, x \in S}

DataspaceBody(version, dims, flags) ==
    <<version, Len(dims), flags, 0, 0, 0, 0, 0>> \o U64Seq(dims)
        \o (IF flags % 2 = 1 THEN U64Seq(dims) ELSE <<>>)

FloatBody(bit_offset, bit_precision, eloc, esize, mloc, msize, bias) ==
    U16(bit_offset) \o U16(bit_precision) \o <<eloc, esize, mloc, msize>>
        \o U32(bias) \o Zeros(4)

CanonicalFloatBody == FloatBody(0, 32, 23, 8, 0, 23, 127)

\* little-endian, no padding bits, implied mantissa normalization, sign at 31
CanonicalBitField == 31 * 256 + 2 * 16

FixedBody == U16(0) \o U16(32) \o Zeros(4)

DatatypeBody(version, class, bf, size, classBody) ==
    <<version * 16 + class>> \o U24(bf) \o U32(size) \o classBody

FillValueBody(version, defined, value) ==
    <<version, 2, 0, defined>> \o (IF defined = 1 THEN U32(Len(value)) \o value ELSE <<>>)

DataLayoutBody(version, class, address, size, pad) ==
    <<version, class>> \o (IF class = 1 THEN U64(address) \o U64(size) ELSE <<>>)
        \o Zeros(pad)

SymbolTableBody == U64(136) \o U64(680)

ModTimeBody(version) == <<version, 0, 0, 0>> \o U32(1000)

Rec(type, kind, tag, b) == [type |-> type, kind |-> kind, tag |-> tag, body |-> b]

Dims == SeqsUpTo(0..MaxDim, MaxRank)

\* Well-formed bodies of every supported message type.
WellFormed ==
    {Rec("Nil", 0, "ok", Zeros(n)) : n \in 0..MaxPad}
    \cup {Rec("Dataspace", 1, "ok", DataspaceBody(1, d, fl)) :
              d \in {<<>>, <<2>>, <<2, 3>>}, fl \in {0, 1}}
    \cup {Rec("Datatype", 3, "ok", DatatypeBody(1, 1, CanonicalBitField, 4, CanonicalFloatBody)),
          Rec("Datatype", 3, "ok", DatatypeBody(1, 0, 8, 4, FixedBody))}
    \cup {Rec("FillValue", 5, "ok", FillValueBody(2, df, v)) :
              df \in {0, 1, 2}, v \in {<<>>, <<9, 9>>}}
    \cup {Rec("DataLayout", 8, "ok", DataLayoutBody(3, 1, 200, 24, n)) : n \in 0..MaxPad}
    \cup {Rec("SymbolTable", 17, "ok", SymbolTableBody)}
    \cup {Rec("ObjectModificationTime", 18, "ok", ModTimeBody(1))}

\* Bodies whose version field is not the one the decoder accepts.
BadVersion ==
    {Rec("Dataspace", 1, "version", DataspaceBody(v, <<2>>, 0)) : v \in {0, 2}}
    \cup {Rec("Datatype", 3, "version", DatatypeBody(v, c, CanonicalBitField, 4, CanonicalFloatBody)) :
              v \in {0, 2}, c \in {0, 1, 2, 10, 11, 15}}
    \cup {Rec("FillValue", 5, "version", FillValueBody(v, 0, <<>>)) : v \in {1, 3}}
    \cup {Rec("DataLayout", 8, "version", DataLayoutBody(v, 1, 200, 24, 0)) : v \in {1, 2, 4}}
    \cup {Rec("ObjectModificationTime", 18, "version", ModTimeBody(v)) : v \in {0, 2}}

\* Recognized features the decoder does not implement, and reserved values.
Rejected ==
    {Rec("Dataspace", 1, "feature", DataspaceBody(1, <<2>>, fl)) : fl \in {2, 3}}
    \cup {Rec("Datatype", 3, "class", DatatypeBody(1, c, CanonicalBitField, 4, CanonicalFloatBody)) :
              c \in 2..15}
    \cup {Rec("DataLayout", 8, "feature", DataLayoutBody(3, c, 200, 24, 0)) : c \in {0, 2, 3}}

\* Type codes outside the dispatch table.
UnknownKinds == {2, 4, 16, 19, 127}
Unknown == {Rec("Unknown", k, "kind", Zeros(n)) : k \in UnknownKinds, n \in {0, 2}}

Encode(rec, flags) ==
    U16(rec.kind) \o U16(Len(rec.body)) \o <<flags, 0, 0, 0>> \o rec.body

RECURSIVE EncodeAll(_)
EncodeAll(recs) == IF recs = <<>> THEN <<>> ELSE Encode(Head(recs), 0) \o EncodeAll(Tail(recs))

RECURSIVE TotalLen(_)
TotalLen(recs) == IF recs = <<>> THEN 0 ELSE 8 + Len(Head(recs).body) + TotalLen(Tail(recs))

Prefix(version, reserved, count, size) ==
    <<version, reserved>> \o U16(count) \o U32(1) \o U32(size) \o Zeros(4)

PrefixLen == 1 + 1 + 2 + 4 + 4 + 4

\* The body with one trailing byte more, or with its last byte missing.
Extra(rec, b) == [rec EXCEPT !.body = Append(rec.body, b)]
Short(rec) == [rec EXCEPT !.body = SubSeq(rec.body, 1, Len(rec.body) - 1)]

Tails == {<<>>, <<0>>, <<1, 0>>}

Started ==
    /\ rd = [pos |-> 0, lims |-> <<>>]
    /\ left = 0
    /\ hdr = NoHdr
    /\ cur = NoCur
    /\ body = NoBody
    /\ messages = <<>>
    /\ result = NoResult
    /\ dobj = NoResult
    /\ bit_field = 0
    /\ fp = NoResult
    /\ buf = <<>>
    /\ dec = NoResult

\* One message in a prefix that declares exactly its size.
InitSingle ==
    /\ Started
    /\ pc = "start"
    /\ \E rec \in WellFormed \cup BadVersion \cup Rejected \cup Unknown :
       \E variant \in {"exact", "extra", "short"} :
       \E flags \in {0, 129} :
       \E tail \in Tails :
          /\ variant # "exact" => rec.tag = "ok" /\ flags = 0
          /\ variant = "short" => Len(rec.body) > 0
          /\ LET sent == CASE variant = "exact" -> rec
                           [] variant = "extra" -> Extra(rec, 0)
                           [] variant = "short" -> Short(rec)
             IN  /\ file = Prefix(1, 0, 1, 8 + Len(sent.body)) \o Encode(sent, flags) \o tail
                 /\ input = [family |-> "single", rec |-> rec, variant |-> variant,
                             flags |-> flags, declared |-> Len(sent.body)]

MultiCatalog ==
    {Rec("Nil", 0, "ok", Zeros(1)),
     Rec("Dataspace", 1, "ok", DataspaceBody(1, <<2>>, 0)),
     Rec("DataLayout", 8, "ok", DataLayoutBody(3, 1, 200, 24, 1)),
     Rec("ObjectModificationTime", 18, "ok", ModTimeBody(1)),
     Rec("Unknown", 127, "kind", Zeros(2)),
     Rec("Dataspace", 1, "version", DataspaceBody(2, <<2>>, 0))}

\* Several messages in a prefix whose version, reserved byte, message count
\* and declared size may each be off.
InitMulti ==
    /\ Started
    /\ pc = "start"
    /\ \E recs \in SeqsUpTo(MultiCatalog, MaxMsgs) :
       \E vr \in {<<1, 0>>, <<0, 0>>, <<2, 0>>, <<1, 1>>} :
       \E count \in {Len(recs) - 1, Len(recs), Len(recs) + 1} \cap Nat :
       \E delta \in {0 - 1, 0, 1} :
       \E tail \in {<<>>, <<0>>} :
       \E size \in {TotalLen(SubSeq(recs, 1, Min(count, Len(recs)))) + delta} \cap Nat :
          /\ file = Prefix(vr[1], vr[2], count, size) \o EncodeAll(recs) \o tail
          /\ input = [family |-> "multi", recs |-> recs, version |-> vr[1],
                      reserved |-> vr[2], count |-> count, size |-> size]

\* The bytes of a data region: every 4-byte element differs from the others.
RECURSIVE DataBytes(_, _)
DataBytes(from, n) ==
    IF n = 0 THEN <<>> ELSE <<(from * 37 + 11) % 256>> \o DataBytes(from + 1, n - 1)

CanonicalFloat == Rec("Datatype", 3, "ok", DatatypeBody(1, 1, CanonicalBitField, 4, CanonicalFloatBody))

\* The number of elements of a shape.
RECURSIVE Volume(_)
Volume(ds) == IF ds = <<>> THEN 1 ELSE Head(ds) * Volume(Tail(ds))

\* The first bytes of a region replaced by those of another element.
Overwrite(bytes, elem) ==
    [i \in 1..Len(bytes) |-> IF i <= Len(elem) THEN elem[i] ELSE bytes[i]]

\* What the first element of a data region holds: the plain bytes, a
\* signalling NaN, or a negative quiet NaN.
Fills == [plain |-> <<>>, snan |-> <<1, 0, 128, 127>>, qnan |-> <<2, 0, 192, 255>>]

\* A data object: Dataspace, Datatype and DataLayout messages, then the
\* region the layout names.  The region's declared size is around
\* 4 * (product of the dimensions); the file may end one byte early.
InitData ==
    /\ Started
    /\ pc = "start"
    /\ \E dims \in Dims :
       \E delta \in {0 - 4, 0 - 1, 0, 1, 4} :
       \E gap \in {0, 3} :
       \E cut \in {0, 1} :
       \E fill \in DOMAIN Fills :
          LET size == 4 * Volume(dims) + delta
              ds == Rec("Dataspace", 1, "ok", DataspaceBody(1, dims, 0))
              address == PrefixLen + TotalLen(<<ds, CanonicalFloat>>) + 8 + 18 + gap
              dl == Rec("DataLayout", 8, "ok", DataLayoutBody(3, 1, address, size, 0))
              recs == <<ds, CanonicalFloat, dl>>
          IN  /\ size >= cut
              /\ fill # "plain" => size >= 4 /\ cut = 0 /\ gap = 0
              /\ file = Prefix(1, 0, 3, TotalLen(recs)) \o EncodeAll(recs) \o Zeros(gap)
                            \o Overwrite(DataBytes(0, size - cut), Fills[fill])
              /\ input = [family |-> "data", dims |-> dims, size |-> size,
                          address |-> address, present |-> size - cut, fill |-> fill]

\* Dimension sizes whose product does not fit 64 bits, with the count the
\* wrapped product leaves: 2^21 * 2^21 * 2^22 = 2^64 leaves 0, and
\* 20 * 429509837 * 2147418113 = 2^64 + 4 leaves 4.  The last list
\* overflows before a dimension of size 0.
OverflowDims ==
    {[dims |-> <<2^21, 2^21, 2^22>>, wrapped |-> 0],
     [dims |-> <<20, 429509837, 2147418113>>, wrapped |-> 4],
     [dims |-> <<2^21, 2^21, 2^22, 0>>, wrapped |-> 0]}

\* A data object whose element count overflows, over a region of about the
\* size of the wrapped count, with a floating-point or a fixed-point
\* datatype.
InitOverflow ==
    /\ Started
    /\ pc = "start"
    /\ \E o \in OverflowDims :
       \E delta \in {0 - 4, 0, 4} :
       \E class \in {0, 1} :
          LET size == 4 * o.wrapped + delta
              ds == Rec("Dataspace", 1, "ok", DataspaceBody(1, o.dims, 0))
              dt == IF class = 1 THEN CanonicalFloat
                    ELSE Rec("Datatype", 3, "ok", DatatypeBody(1, 0, 8, 4, FixedBody))
              address == PrefixLen + TotalLen(<<ds, dt>>) + 8 + 18
              dl == Rec("DataLayout", 8, "ok", DataLayoutBody(3, 1, address, size, 0))
              recs == <<ds, dt, dl>>
          IN  /\ size >= 0
              /\ file = Prefix(1, 0, 3, TotalLen(recs)) \o EncodeAll(recs)
                            \o DataBytes(0, size)
              /\ input = [family |-> "overflow", dims |-> o.dims, wrapped |-> o.wrapped,
                          size |-> size, address |-> address, class |-> class]

\* Messages a lookup may meet: two dataspaces, three datatypes, two layouts.
LookupKinds == {"ds1", "ds2", "fp", "fpbig", "fx", "dl1", "dl2"}

LookupDims1 == <<2>>
LookupDims2 == <<3>>

LookupRec(k, base) ==
    CASE k = "ds1" -> Rec("Dataspace", 1, "ok", DataspaceBody(1, LookupDims1, 0))
      [] k = "ds2" -> Rec("Dataspace", 1, "ok", DataspaceBody(1, LookupDims2, 0))
      [] k = "fp" -> CanonicalFloat
      [] k = "fpbig" -> Rec("Datatype", 3, "ok",
                            DatatypeBody(1, 1, CanonicalBitField + 1, 4, CanonicalFloatBody))
      [] k = "fx" -> Rec("Datatype", 3, "ok", DatatypeBody(1, 0, 8, 4, FixedBody))
      [] k = "dl1" -> Rec("DataLayout", 8, "ok", DataLayoutBody(3, 1, base, 8, 0))
      [] k = "dl2" -> Rec("DataLayout", 8, "ok", DataLayoutBody(3, 1, base + 8, 12, 0))

LookupRecs(kinds, base) == [i \in 1..Len(kinds) |-> LookupRec(kinds[i], base)]

\* A header holding any of these messages, each at most once, in any order, followed by a
\* region of 2 elements (for dl1) and one of 3 elements (for dl2).
InitLookup ==
    /\ Started
    /\ pc = "start"
    /\ \E kinds \in {q \in SeqsUpTo(LookupKinds, MaxLookupMsgs) :
                         \A i, j \in 1..Len(q) : q[i] = q[j] => i = j} :
       \E cut \in {0, 1} :
          LET base == PrefixLen + TotalLen(LookupRecs(kinds, 0))
              recs == LookupRecs(kinds, base)
          IN  /\ file = Prefix(1, 0, Len(recs), TotalLen(recs)) \o EncodeAll(recs)
                            \o DataBytes(0, 20 - cut)
              /\ input = [family |-> "lookup", kinds |-> kinds, base |-> base,
                          cut |-> cut]

\* The values of the version nibble and of the class nibble of the first
\* byte of a Datatype body.
Nibble == 0..15

\* The bit-fields of the Datatype bodies: the canonical floating-point one
\* and one with only bit 3 set.  FloatingPointDatatype::from_reader accepts
\* both.
DatatypeBitFields == {CanonicalBitField, 8}

\* The class-specific bytes that follow the 8 common bytes of a Datatype
\* body.
ClassBodies == [float |-> CanonicalFloatBody, fixed |-> FixedBody]

\* The bytes a Datatype body of a class needs: 8 common bytes, then 8 for
\* FixedPoint and 16 for FloatingPoint.
DatatypeLen(class) == 8 + Len(IF class = 1 THEN ClassBodies.float ELSE ClassBodies.fixed)

\* One Datatype message whose first byte holds any version nibble and any
\* class nibble, followed by the class body of either implemented class,
\* and cut to a declared length that may end before the common bytes do.
InitDatatype ==
    /\ Started
    /\ pc = "start"
    /\ \E version \in Nibble :
       \E class \in Nibble :
       \E bf \in DatatypeBitFields :
       \E shape \in DOMAIN ClassBodies :
          LET full == DatatypeBody(version, class, bf, 4, ClassBodies[shape]) IN
          \E declared \in {1, 5, 8, Len(full)} :
             /\ file = Prefix(1, 0, 1, 8 + declared)
                           \o Encode(Rec("Datatype", 3, "nibbles", SubSeq(full, 1, declared)), 0)
             /\ input = [family |-> "datatype", version |-> version, class |-> class,
                         bf |-> bf, shape |-> shape, declared |-> declared]

Init == InitSingle \/ InitMulti \/ InitData \/ InitLookup \/ InitDatatype \/ InitOverflow

Next ==
    \/ ReadPrefix
    \/ ReadMessageHeader
    \/ ParseMessageBody
    \/ CheckMessage
    \/ FinishPrefix
    \/ GetDataObject

Spec == Init /\ [][Next]_vars

----------------------------------------------------------------------------
(* The floating-point datatype on its own: from_reader on a bit-field and  *)
(* a class body, then decode on a data buffer.                             *)

ByteOrders == {"Little", "Big", "Vax", "Reserved"}
Norms == {"None", "AlwaysSet", "ImpliedToBeSet", "Reserved"}
SignLocations == {0, 30, 31, 255}

\* The bit-field that states the given values (bits 7 and 16.. carry no field).
BitFieldOf(order, low, high, internal, norm, sign, bit7, top) ==
    (CASE order = "Little" -> 0
       [] order = "Big" -> 1
       [] order = "Vax" -> 65
       [] order = "Reserved" -> 64)
    + 2 * low + 4 * high + 8 * internal
    + 16 * (CASE norm = "None" -> 0
              [] norm = "AlwaysSet" -> 1
              [] norm = "ImpliedToBeSet" -> 2
              [] norm = "Reserved" -> 3)
    + 128 * bit7 + 256 * sign + 65536 * top

\* Data buffers: an element, a short one, longer ones, none, a signalling
\* NaN, a quiet NaN and a negative signalling NaN.
Buffers == {<<166, 73, 90, 67>>, <<166, 73, 90>>, <<166, 73, 90, 67, 1>>, <<>>,
            <<0, 0, 128, 191, 166, 73, 90, 67>>,
            <<1, 0, 128, 127>>, <<1, 0, 192, 127>>, <<255, 255, 191, 255>>}

FloatStarted ==
    /\ rd = [pos |-> 0, lims |-> <<>>]
    /\ pc = "fp_start"
    /\ left = 0
    /\ hdr = NoHdr
    /\ cur = NoCur
    /\ body = NoBody
    /\ messages = <<>>
    /\ result = NoResult
    /\ dobj = NoResult
    /\ fp = NoResult
    /\ dec = NoResult

\* Every combination of bit-field values over the canonical class body.
InitBitField ==
    /\ FloatStarted
    /\ \E order \in ByteOrders, norm \in Norms, sign \in SignLocations :
       \E low \in {0, 1}, high \in {0, 1}, internal \in {0, 1} :
       \E bit7 \in {0, 1}, top \in {0, 1} :
          /\ bit_field = BitFieldOf(order, low, high, internal, norm, sign, bit7, top)
          /\ input = [family |-> "bits", order |-> order, norm |-> norm, sign |-> sign,
                      low |-> low, high |-> high, internal |-> internal]
    /\ file = CanonicalFloatBody
    /\ buf \in Buffers

\* The canonical bit-field over class bodies that deviate field by field,
\* and over the canonical body cut short.
InitFloatBody ==
    /\ FloatStarted
    /\ bit_field = CanonicalBitField
    /\ \E off \in {0, 1}, prec \in {32, 64}, eloc \in {23, 52}, esize \in {8, 11} :
       \E mloc \in {0, 1}, msize \in {23, 52}, bias \in {127, 1023} :
       \E cut \in {0, 1} :
          LET b == FloatBody(off, prec, eloc, esize, mloc, msize, bias)
          IN  /\ file = SubSeq(b, 1, Len(b) - cut)
              /\ input = [family |-> "body", cut |-> cut]
    /\ buf \in Buffers

InitFloat == InitBitField \/ InitFloatBody

FpFromReader ==
    /\ pc = "fp_start"
    /\ \E size \in {4, 8} :
           fp' = FloatingPointDatatype_from_reader(bit_field, size, file, rd)
    /\ rd' = fp'.rd
    /\ pc' = "fp_parsed"
    /\ UNCHANGED <<file, left, hdr, cur, body, messages, result, dobj,
                   bit_field, buf, dec, input>>

FpDecode ==
    /\ pc = "fp_parsed"
    /\ fp.ok
    /\ \E nan \in NaNChoices :
           dec' = decode(fp.val, buf, [pos |-> 0, lims |-> <<>>], nan)
    /\ pc' = "fp_decoded"
    /\ UNCHANGED <<file, rd, left, hdr, cur, body, messages, result, dobj,
                   bit_field, fp, buf, input>>

NextFloat == FpFromReader \/ FpDecode

SpecFloat == InitFloat /\ [][NextFloat]_vars

----------------------------------------------------------------------------
(* Properties.                                                             *)

SupportedKinds ==
    {TypeNil, TypeDataspace, TypeDatatype, TypeFillValue, TypeDataLayout,
     TypeSymbolTable, TypeObjectModificationTime}

\* The end of the record of the message being parsed.
MessageEnd == cur.start + 8 + cur.data_len

\* C1: HeaderMessage::from_reader confines a message to its declared length.
\* While a message is being parsed, and when its parse has failed, the
\* cursor is at most at start + 8 + data_len; once the message is accepted
\* the cursor is exactly there; and a message whose variant parser returned
\* is accepted exactly when the remaining limit is zero.
C1_MessageConfined ==
    /\ cur.state \in {"open", "failed"} => rd.pos <= MessageEnd
    /\ (cur.state = "ok" /\ dobj = NoResult) => rd.pos = MessageEnd
    /\ (cur.state \in {"ok", "failed"} /\ body.ok) =>
           (cur.state = "ok" <=> Limit(body.rd) = 0)

\* A message with a body was accepted although the file goes on after it.
C1_Witness ==
    /\ cur.state = "ok"
    /\ cur.data_len > 0
    /\ Len(file) > rd.pos

\* The parse of the single message of a "single" input has ended.
SingleEnded == input.family = "single" /\ cur.state \in {"ok", "failed"}

\* C2 as stated: for every supported message type a well-formed body of
\* declared length L is accepted, and the body with one trailing byte more
\* (declared L+1) or with its last byte missing (declared L-1) is rejected.
C2_ExactLengthEveryType ==
    (SingleEnded /\ input.rec.tag = "ok") =>
        (cur.state = "ok" <=> input.variant = "exact")

\* The bytes DataLayoutMessage reads before the padding: version, class,
\* address, size.
DataLayoutFixedLen == 1 + 1 + 8 + 8

\* C2 as amended: a well-formed body of declared length L is accepted for
\* every type; with one byte more or one byte less it is rejected for
\* Dataspace, Datatype, FillValue, SymbolTable and ObjectModificationTime.
\* A Nil message is accepted with a body of any length, and a DataLayout
\* message with anything after its 18 fixed bytes: it is rejected only when
\* fewer than 18 bytes are declared.
C2_ExactLengthButPadding ==
    (SingleEnded /\ input.rec.tag = "ok") =>
        CASE input.rec.type = "Nil" -> cur.state = "ok"
          [] input.rec.type = "DataLayout" ->
                 (cur.state = "ok" <=> input.declared >= DataLayoutFixedLen)
          [] OTHER -> (cur.state = "ok" <=> input.variant = "exact")

\* A Dataspace body with one trailing byte was rejected, and so was one
\* with a byte missing; a Nil body with a trailing byte was accepted.
C2_Witness ==
    /\ SingleEnded
    /\ input.rec.type = "Dataspace"
    /\ input.rec.tag = "ok"
    /\ input.variant = "extra"
    /\ cur.state = "failed"
    /\ body.ok

\* The first record of a "multi" input, within the declared count, whose
\* type code is outside the dispatch table (0 if none).
RECURSIVE FirstUnknown(_, _, _)
FirstUnknown(recs, i, n) ==
    IF i > n \/ i > Len(recs) THEN 0
    ELSE IF recs[i].tag = "kind" THEN i
    ELSE FirstUnknown(recs, i + 1, n)

AllOk(recs) == \A i \in 1..Len(recs) : recs[i].tag = "ok"

\* C3: a message with an unsupported type code is never skipped.  Such a
\* message is never accepted; its parse fails with Unsupported reporting
\* the code, with the cursor right after its 8 header bytes; and a prefix
\* holding one among its declared messages never parses: when the messages
\* before it are well-formed and the declared size reaches its header, the
\* prefix fails with exactly that error, keeps no message and reads nothing
\* after it.
C3_UnsupportedNeverSkipped ==
    /\ cur.state \in {"open", "ok", "failed"} /\ cur.kind \notin SupportedKinds =>
           /\ cur.state # "ok"
           /\ pc # "check"
           /\ cur.state = "failed" =>
                  /\ result = [ok |-> FALSE, err |-> Unsupported, info |-> cur.kind]
                  /\ rd.pos = cur.start + 8
                  /\ messages = <<>>
                  /\ pc = "done"
    /\ \A i \in 1..Len(messages) : messages[i].message.type # "Unknown"
    /\ input.family = "multi" =>
           LET u == FirstUnknown(input.recs, 1, input.count)
               before == SubSeq(input.recs, 1, u - 1)
           IN  u # 0 =>
                  /\ ~result.ok
                  /\ pc # "parsed"
                  /\ (/\ pc = "done"
                      /\ input.version = 1
                      /\ input.reserved = 0
                      /\ AllOk(before)
                      /\ input.size >= TotalLen(before) + 8) =>
                         /\ result = [ok |-> FALSE, err |-> Unsupported,
                                      info |-> input.recs[u].kind]
                         /\ rd.pos = PrefixLen + TotalLen(before) + 8
                         /\ messages = <<>>
                         /\ dobj = NoResult

\* A prefix failed on an unsupported second message after a good first one.
C3_Witness ==
    /\ input.family = "multi"
    /\ Len(input.recs) = 2
    /\ input.recs[1].tag = "ok"
    /\ input.recs[2].tag = "kind"
    /\ pc = "done"
    /\ result.ok = FALSE
    /\ result.err = Unsupported
    /\ cur.start > PrefixLen

\* The records a "multi" input declares: the first count of those it holds.
Declared == SubSeq(input.recs, 1, Min(input.count, Len(input.recs)))

ParseEnded == pc \in {"parsed", "done", "panicked"}

\* C4: ObjectHeaderPrefix::from_reader succeeds only if the declared
\* messages consume exactly header_size bytes.  On success the cursor is
\* header_size bytes after the 16 fixed bytes and message_count messages are
\* stored; a prefix whose declared size differs from the sum of 8 + data_len
\* over its declared messages fails; one whose size matches and whose
\* messages are well-formed succeeds with those messages in file order.
C4_HeaderSizeCrossCheck ==
    /\ result.ok =>
           /\ Len(result.val.messages) = hdr.header_message_count
           /\ pc = "parsed" => rd.pos = PrefixLen + hdr.object_header_size
           /\ result.val.object_header_size = hdr.object_header_size
    /\ (input.family = "multi" /\ ParseEnded) =>
           /\ result.ok =>
                  /\ input.count <= Len(input.recs)
                  /\ input.size = TotalLen(Declared)
           /\ (/\ input.version = 1
               /\ input.reserved = 0
               /\ input.count <= Len(input.recs)
               /\ AllOk(Declared)
               /\ input.size = TotalLen(Declared)) =>
                  /\ result.ok
                  /\ Len(result.val.messages) = input.count
                  /\ \A i \in 1..input.count :
                         result.val.messages[i].message.type = input.recs[i].type

\* A prefix of two different messages was parsed.
C4_Witness ==
    /\ input.family = "multi"
    /\ result.ok
    /\ Len(result.val.messages) = 2
    /\ result.val.messages[1].message.type # result.val.messages[2].message.type

\* C5 as stated: every version field the decoder checks, and the prefix's
\* reserved byte, is reported as InvalidFile when it is wrong.
C5_BadVersionInvalidFile ==
    /\ (SingleEnded /\ input.rec.tag = "version") =>
           /\ cur.state = "failed"
           /\ result.err = InvalidFile
    /\ (input.family = "multi" /\ pc = "done"
            /\ (input.version # 1 \/ input.reserved # 0)) =>
           /\ ~result.ok
           /\ result.err = InvalidFile

\* The class code of a Datatype body: the low 4 bits of its first byte.
ClassCode(rec) == rec.body[1] % 16

\* C5 as amended: a wrong prefix version or a nonzero prefix reserved byte
\* is InvalidFile; a wrong version of a Dataspace, FillValue, DataLayout or
\* ObjectModificationTime message is Unsupported; a wrong version nibble
\* of a Datatype message is Unsupported when its class code is 0..10, and
\* InvalidFile (for the class code, which is checked first) when it is
\* 11..15.
C5_BadVersionByField ==
    /\ (SingleEnded /\ input.rec.tag = "version") =>
           /\ cur.state = "failed"
           /\ ~body.ok
           /\ result.err =
                  IF input.rec.type = "Datatype" /\ ClassCode(input.rec) > 10
                  THEN InvalidFile ELSE Unsupported
    /\ (input.family = "multi" /\ pc = "done"
            /\ (input.version # 1 \/ input.reserved # 0)) =>
           /\ ~result.ok
           /\ result.err = InvalidFile
           /\ rd.pos <= 2

\* A Dataspace message of version 2 was rejected as Unsupported.
C5_Witness ==
    /\ SingleEnded
    /\ input.rec.tag = "version"
    /\ input.rec.type = "Dataspace"
    /\ cur.state = "failed"
    /\ result.err = Unsupported
    /\ result.info = 2

\* C6: the floating-point bit-field round-trips.  For every bit-field built
\* from a byte order, three padding bits, a mantissa normalization and a
\* sign location, from_reader returns exactly those values when the byte
\* order and the normalization are valid ones, and fails with InvalidFile
\* when either is the reserved one.
C6_BitFieldRoundTrip ==
    (input.family = "bits" /\ pc # "fp_start") =>
        IF input.order # "Reserved" /\ input.norm # "Reserved"
        THEN /\ fp.ok
             /\ fp.val.endian = input.order
             /\ fp.val.low_padding_bit = input.low
             /\ fp.val.high_padding_bit = input.high
             /\ fp.val.internal_padding_bit = input.internal
             /\ fp.val.mantissa_norm = input.norm
             /\ fp.val.sign_location = input.sign
        ELSE /\ ~fp.ok
             /\ fp.err = InvalidFile

\* A VAX-ordered description with every padding bit set was recovered from
\* a bit-field whose unused bits are set too.
C6_Witness ==
    /\ input.family = "bits"
    /\ pc = "fp_parsed"
    /\ fp.ok
    /\ fp.val.endian = "Vax"
    /\ fp.val.mantissa_norm = "AlwaysSet"
    /\ fp.val.sign_location = 255
    /\ fp.val.low_padding_bit + fp.val.high_padding_bit + fp.val.internal_padding_bit = 3
    /\ bit_field >= 65536
    /\ Bit(bit_field, 7) = 1

\* The canonical single-precision description.
IsCanonical(t) ==
    /\ t.endian = "Little"
    /\ t.low_padding_bit = 0
    /\ t.high_padding_bit = 0
    /\ t.internal_padding_bit = 0
    /\ t.mantissa_norm = "ImpliedToBeSet"
    /\ t.sign_location = 31
    /\ t.bit_offset = 0
    /\ t.bit_precision = 32
    /\ t.exponent_location = 23
    /\ t.exponent_size = 8
    /\ t.mantissa_location = 0
    /\ t.mantissa_size = 23
    /\ t.exponent_bias = 127

\* The values f64::from may give an f32: the value itself, or for a NaN one
\* of the NaNs a conversion may produce.
F64Outcomes(x) == {f64_from(x, nan) : nan \in NaNChoices}

\* C7: decode accepts exactly the canonical single-precision description.
\* A description that deviates in any field fails with Unsupported and
\* leaves the buffer cursor where it was; the canonical one, on a buffer
\* that holds an element, succeeds and consumes exactly 4 bytes; and decode
\* never succeeds otherwise.
C7_DecodeCanonicalOnly ==
    pc = "fp_decoded" =>
        /\ ~IsCanonical(fp.val) =>
               /\ ~dec.ok
               /\ dec.err = Unsupported
               /\ dec.rd.pos = 0
        /\ (IsCanonical(fp.val) /\ Len(buf) >= 4) =>
               /\ dec.ok
               /\ dec.rd.pos = 4
               /\ dec.val \in F64Outcomes(F32Value(SubSeq(buf, 1, 4)))
               /\ ~IsNaN(F32Value(SubSeq(buf, 1, 4))) =>
                      dec.val = F32Value(SubSeq(buf, 1, 4))
        /\ dec.ok => IsCanonical(fp.val) /\ dec.rd.pos = 4

\* A description canonical but for sign_location = 30 was rejected on a
\* buffer that holds an element.
C7_Witness ==
    /\ pc = "fp_decoded"
    /\ fp.val.sign_location = 30
    /\ IsCanonical([fp.val EXCEPT !.sign_location = 31])
    /\ Len(buf) >= 4
    /\ ~dec.ok
    /\ dec.rd.pos = 0

\* The index tuple of the i-th element (from 0) of a row-major array.
Unravel(i, shape) ==
    [k \in 1..Len(shape) |->
        (i \div Volume(SubSeq(shape, k + 1, Len(shape)))) % shape[k]]

\* The messages get_data_object works from, as parsed.
UsedDataspace ==
    LET msgs == result.val.messages
    IN  msgs[FirstFrom(msgs, "Dataspace", 1)].message
UsedLayout ==
    LET msgs == result.val.messages
    IN  msgs[FirstFrom(msgs, "DataLayout", 1)].message.layout

\* The i-th (from 0) 4-byte element of the region at an address of the file.
Element(address, i) == F32Value(SubSeq(file, address + 4 * i + 1, address + 4 * i + 4))

\* C8: when get_data_object succeeds, the array has the shape of the
\* dataspace dimensions and count = their product elements, the element at
\* row-major position i being the i-th 4-byte element of the region
\* converted to f64 (exactly that element unless it is a NaN); a dataspace
\* of dimensionality 0 gives one element.  Dimensions whose product does
\* not fit 64 bits never give a data object: the call panics where the
\* build checks the multiplication, and fails where the product wraps.
C8_ShapeAndOrder ==
    /\ dobj.ok =>
           /\ input.family # "overflow"
           /\ LET shape == UsedDataspace.dimension_sizes
                  count == Volume(shape)
              IN  /\ dobj.val.shape = shape
                  /\ Cardinality(DOMAIN dobj.val.at) = count
                  /\ UsedLayout.size = 4 * count
                  /\ \A i \in 0..(count - 1) :
                         LET e == Element(UsedLayout.address, i)
                         IN  /\ dobj.val.at[Unravel(i, shape)] \in F64Outcomes(e)
                             /\ ~IsNaN(e) => dobj.val.at[Unravel(i, shape)] = e
    /\ pc = "panicked" => input.family = "overflow" /\ ~dobj.ok
    /\ (input.family = "overflow" /\ pc = "done") => ~dobj.ok
    /\ (/\ input.family = "data"
        /\ pc = "done"
        /\ input.dims = <<>>
        /\ input.size = 4
        /\ input.present = 4) =>
           /\ dobj.ok
           /\ dobj.val.shape = <<>>
           /\ DOMAIN dobj.val.at = {<<>>}
           /\ dobj.val.at[<<>>] \in F64Outcomes(Element(input.address, 0))

\* A 2 x 3 array was decoded.
C8_Witness ==
    /\ input.family = "data"
    /\ input.dims = <<2, 3>>
    /\ dobj.ok
    /\ dobj.val.at[<<1, 0>>] = Element(input.address, 3)

DataEnded == input.family = "data" /\ pc = "done"

\* C9 as stated: whenever the region's size is not 4 * count,
\* get_data_object fails with InvalidFile, whether the region is too long
\* or too short.
C9_SizeMismatchInvalidFile ==
    (DataEnded /\ input.present = input.size
         /\ input.size # 4 * Volume(input.dims)) =>
        /\ ~dobj.ok
        /\ dobj.err = InvalidFile

\* C9 as amended: a region of exactly 4 * count bytes decodes; a longer one
\* fails with InvalidFile; a shorter one fails too, with the error of the
\* element read that ran out of bytes, which is not InvalidFile.
C9_SizeMismatchFails ==
    DataEnded =>
        LET count == Volume(input.dims)
        IN  /\ (input.size = 4 * count /\ input.present = input.size) => dobj.ok
            /\ (input.size > 4 * count /\ input.present = input.size) =>
                   /\ ~dobj.ok
                   /\ dobj.err = InvalidFile
            /\ input.size < 4 * count =>
                   /\ ~dobj.ok
                   /\ dobj.err # InvalidFile
            /\ input.size # 4 * count => ~dobj.ok

\* For dimensions [2,3] a region of 5 elements failed, not with InvalidFile.
C9_Witness ==
    /\ DataEnded
    /\ input.dims = <<2, 3>>
    /\ input.size = 20
    /\ input.present = 20
    /\ ~dobj.ok
    /\ dobj.err # InvalidFile

\* The first of the kinds in S among the messages of a "lookup" input.
RECURSIVE FirstKind(_, _)
FirstKind(ks, S) ==
    IF ks = <<>> THEN "none"
    ELSE IF Head(ks) \in S THEN Head(ks)
    ELSE FirstKind(Tail(ks), S)

\* C10: get_data_object works from the first Dataspace, the first Datatype
\* and the first DataLayout message in file order.  In the order the code
\* looks them up (layout and its region, dimensions, datatype): a header
\* without one of them fails with Other; one whose first Datatype is
\* FixedPoint fails with Unsupported and yields no data object; otherwise
\* the outcome is the one the first Dataspace and the first DataLayout
\* give, whatever follows them.
C10_FirstMatch ==
    (input.family = "lookup" /\ pc = "done" /\ result.ok) =>
        LET ds == FirstKind(input.kinds, {"ds1", "ds2"})
            dt == FirstKind(input.kinds, {"fp", "fpbig", "fx"})
            dl == FirstKind(input.kinds, {"dl1", "dl2"})
            Failed(kind) == ~dobj.ok /\ dobj.err = kind
        IN  CASE dl = "none" -> Failed(Other)
              [] dl = "dl2" /\ input.cut > 0 -> ~dobj.ok
              [] ds = "none" -> Failed(Other)
              [] dt = "none" -> Failed(Other)
              [] dt = "fx" -> Failed(Unsupported)
              [] dt = "fpbig" -> Failed(Unsupported)
              [] ds = "ds1" /\ dl = "dl1" ->
                     /\ dobj.ok
                     /\ dobj.val.shape = LookupDims1
                     /\ \A i \in 0..1 : dobj.val.at[<<i>>] = Element(input.base, i)
              [] ds = "ds2" /\ dl = "dl2" ->
                     /\ dobj.ok
                     /\ dobj.val.shape = LookupDims2
                     /\ \A i \in 0..2 : dobj.val.at[<<i>>] = Element(input.base + 8, i)
              [] ds = "ds1" /\ dl = "dl2" -> Failed(InvalidFile)
              [] ds = "ds2" /\ dl = "dl1" -> ~dobj.ok

\* A header with two Dataspace and two DataLayout messages was decoded from
\* the second region, which the first of each names.
C10_Witness ==
    /\ input.family = "lookup"
    /\ Len(input.kinds) = 4
    /\ FirstKind(input.kinds, {"ds1", "ds2"}) = "ds2"
    /\ FirstKind(input.kinds, {"dl1", "dl2"}) = "dl2"
    /\ \E i \in 1..4 : input.kinds[i] = "ds1"
    /\ dobj.ok
    /\ dobj.val.shape = LookupDims2

\* The Datatype message of the datatype family has been parsed or rejected.
DatatypeEnded == input.family = "datatype" /\ cur.state \in {"ok", "failed"}

\* C11: DatatypeMessage::from_reader takes the class from the low 4 bits of
\* the first byte and the version from the high 4 bits.  A class code 11..15
\* is rejected with InvalidFile whatever the version.  A class code 2..10 is
\* never parsed into a message: it is rejected with Unsupported, for the
\* version when that is not 1, and for the class once the 8 common bytes
\* have been read.  With version 1, class 0 yields FixedPoint and class 1
\* yields FloatingPoint as soon as the declared length holds the bytes of
\* that class, whichever class body follows.  Whenever a Datatype message
\* is produced, its version nibble is 1 and its class is the encoded one.
C11_ClassMapping ==
    DatatypeEnded =>
        /\ input.class > 10 =>
               /\ ~body.ok
               /\ body.err = InvalidFile
               /\ body.info = input.class
        /\ (input.class <= 10 /\ input.version # 1) =>
               /\ ~body.ok
               /\ body.err = Unsupported
               /\ body.info = input.version
        /\ (input.class \in 2..10 /\ input.version = 1) =>
               /\ ~body.ok
               /\ input.declared >= 8 =>
                      /\ body.err = Unsupported
                      /\ body.info = input.class
        /\ (input.class \in {0, 1} /\ input.version = 1) =>
               /\ body.ok <=> input.declared >= DatatypeLen(input.class)
               /\ cur.state = "ok" <=> input.declared = DatatypeLen(input.class)
        /\ body.ok =>
               /\ input.version = 1
               /\ input.class \in {0, 1}
               /\ body.val.type = "Datatype"
               /\ body.val.class = DatatypeClassNames[input.class + 1]
               /\ body.val.class = (IF input.class = 0 THEN "FixedPoint" ELSE "FloatingPoint")
        /\ cur.state = "ok" =>
               /\ Len(messages) = 1
               /\ messages[1].message = body.val

\* A first byte of version 1 and class 1 was parsed into a FloatingPoint
\* message, and the message was accepted.
C11_Witness ==
    /\ DatatypeEnded
    /\ input.version = 1
    /\ input.class = 1
    /\ input.shape = "float"
    /\ cur.state = "ok"
    /\ body.val.class = "FloatingPoint"
    /\ messages[1].message.class = "FloatingPoint"

====
